---- MODULE Spec2Model ----
(***************************************************************************)
(* Operator algebra of src/operator/operator.py.                           *)
(*                                                                         *)
(* An operator expression is a table `ops` of nodes; a node refers to its  *)
(* operands by their index in the table.  Buffers (vectors) live in a heap *)
(* and are referred to by their index, so "rhs is out" is equality of      *)
(* indices.  An evaluation is computed by the recursive operators          *)
(* applyImpl / applyAdjointImpl / apply / applyAdjoint, which thread a     *)
(* machine state [heap, trace, err] through the calls in program order.    *)
(***************************************************************************)
EXTENDS Integers, Sequences, FiniteSets, TLC

VARIABLES ops, cur, last, call

vars == <<ops, cur, last, call>>

(* ---------------- bounds ---------------- *)

\* number of combinator nodes a client builds on top of the leaf operators
MaxNodes == 2

\* largest magnitude of a vector entry that enters an arithmetic operation;
\* evaluations that would go beyond it are not explored
MaxAbs == 40000

(* ---------------- spaces and buffers ---------------- *)

\* the two vector spaces of the model: X = R^3, Y = R^2
Spaces == {"X", "Y"}

\* Space.empty(): an uninitialised element; its contents are whatever the
\* allocator left there (junk)
empty(space, junk) ==
    [space |-> space,
     val   |-> IF space = "X" THEN <<junk, junk, junk>> ELSE <<junk, junk>>]

\* Space.isMember(x)
isMember(space, buf) == buf.space = space

\* contents an uninitialised buffer may hold
Junk == {0, 7}

\* the buffers the client owns when it calls an operator
ClientHeap ==
    << [space |-> "X", val |-> <<1, 2, 3>>],
       [space |-> "X", val |-> <<1, 1, 1>>],
       [space |-> "Y", val |-> <<3, -1>>] >>

ClientBufs == DOMAIN ClientHeap

(* ---------------- operator nodes ---------------- *)

Node(cls, a, b, s) == [cls |-> cls, a |-> a, b |-> b, s |-> s]

\* concrete leaf operators supplied by the client
LeafOps ==
    << Node("Double", 0, 0, 0),     \* SelfAdjointOperator  X -> X, x |-> 2x
       Node("Triple", 0, 0, 0),     \* SelfAdjointOperator  X -> X, x |-> 3x
       Node("Square", 0, 0, 0),     \* Operator             X -> X, x |-> x*x
       Node("Matrix", 0, 0, 0) >>   \* LinearOperator       X -> Y

Leaves == DOMAIN LeafOps

LeafClasses == {"Double", "Triple", "Square", "Matrix"}

RECURSIVE domain(_, _), range(_, _)

\* the leaf operators' spaces
Leaf_domain(n) == "X"
Leaf_range(n)  == IF n.cls = "Matrix" THEN "Y" ELSE "X"

OperatorSum_domain(t, n) == domain(t, n.a)
OperatorSum_range(t, n)  == range(t, n.a)

\* a = left, b = right
OperatorComposition_domain(t, n) == domain(t, n.b)
OperatorComposition_range(t, n)  == range(t, n.a)

OperatorPointwiseProduct_domain(t, n) == domain(t, n.a)
OperatorPointwiseProduct_range(t, n)  == range(t, n.a)

OperatorLeftScalarMultiplication_domain(t, n) == domain(t, n.a)
OperatorLeftScalarMultiplication_range(t, n)  == range(t, n.a)

OperatorRightScalarMultiplication_domain(t, n) == domain(t, n.a)
OperatorRightScalarMultiplication_range(t, n)  == range(t, n.a)

OperatorAdjoint_domain(t, n) == range(t, n.a)
OperatorAdjoint_range(t, n)  == domain(t, n.a)

\* op.domain: the property of the class of op, or the one it inherits
domain(t, i) ==
    LET n == t[i] IN
    CASE n.cls \in LeafClasses -> Leaf_domain(n)
      [] n.cls \in {"OperatorSum", "LinearOperatorSum"} -> OperatorSum_domain(t, n)
      [] n.cls \in {"OperatorComposition", "LinearOperatorComposition"}
                                    -> OperatorComposition_domain(t, n)
      [] n.cls = "OperatorPointwiseProduct" -> OperatorPointwiseProduct_domain(t, n)
      [] n.cls \in {"OperatorLeftScalarMultiplication",
                    "LinearOperatorScalarMultiplication"}
                                    -> OperatorLeftScalarMultiplication_domain(t, n)
      [] n.cls = "OperatorRightScalarMultiplication"
                                    -> OperatorRightScalarMultiplication_domain(t, n)
      [] n.cls = "OperatorAdjoint" -> OperatorAdjoint_domain(t, n)

\* op.range
range(t, i) ==
    LET n == t[i] IN
    CASE n.cls \in LeafClasses -> Leaf_range(n)
      [] n.cls \in {"OperatorSum", "LinearOperatorSum"} -> OperatorSum_range(t, n)
      [] n.cls \in {"OperatorComposition", "LinearOperatorComposition"}
                                    -> OperatorComposition_range(t, n)
      [] n.cls = "OperatorPointwiseProduct" -> OperatorPointwiseProduct_range(t, n)
      [] n.cls \in {"OperatorLeftScalarMultiplication",
                    "LinearOperatorScalarMultiplication"}
                                    -> OperatorLeftScalarMultiplication_range(t, n)
      [] n.cls = "OperatorRightScalarMultiplication"
                                    -> OperatorRightScalarMultiplication_range(t, n)
      [] n.cls = "OperatorAdjoint" -> OperatorAdjoint_range(t, n)

\* isinstance(op, LinearOperator)
IsLinearOperator(t, i) ==
    t[i].cls \in {"Double", "Triple", "Matrix", "OperatorAdjoint",
                  "LinearOperatorSum", "LinearOperatorComposition",
                  "LinearOperatorScalarMultiplication"}

(* ---------------- in-place vector operations ---------------- *)

\* the machine state threaded through an evaluation: the heap of buffers,
\* the calls made so far (in program order) and the exception raised, if any
Machine(heap) == [heap |-> heap, trace |-> <<>>, err |-> "ok"]

Log(m, op, fn, rhs, out) ==
    [m EXCEPT !.trace = Append(@, [op |-> op, fn |-> fn, rhs |-> rhs, out |-> out])]

Raise(m, e) == [m EXCEPT !.err = e]

\* a new buffer; its identity is the next free index of the heap
Alloc(m, buf) == [m EXCEPT !.heap = Append(@, buf)]

\* overwrite the contents of buffer `out`
Store(m, out, v) == [m EXCEPT !.heap[out].val = v]

\* the entries of v are small enough to be operated on
InRange(v) == \A k \in DOMAIN v : -MaxAbs <= v[k] /\ v[k] <= MaxAbs

OutOfRange == "out of the range of the model"

\* out += tmp
iadd(m, out, tmp) ==
    IF m.err # "ok" THEN m
    ELSE LET x == m.heap[out].val
             y == m.heap[tmp].val
         IN IF Len(x) # Len(y) THEN Raise(m, "ShapeError")
            ELSE IF ~InRange(x) \/ ~InRange(y) THEN Raise(m, OutOfRange)
            ELSE Store(m, out, [k \in 1..Len(x) |-> x[k] + y[k]])

\* out *= tmp   (pointwise)
imul(m, out, tmp) ==
    IF m.err # "ok" THEN m
    ELSE LET x == m.heap[out].val
             y == m.heap[tmp].val
         IN IF Len(x) # Len(y) THEN Raise(m, "ShapeError")
            ELSE IF ~InRange(x) \/ ~InRange(y) THEN Raise(m, OutOfRange)
            ELSE Store(m, out, [k \in 1..Len(x) |-> x[k] * y[k]])

\* out *= scalar
iscale(m, out, scalar) ==
    IF m.err # "ok" THEN m
    ELSE LET x == m.heap[out].val
         IN IF ~InRange(x) THEN Raise(m, OutOfRange)
            ELSE Store(m, out, [k \in 1..Len(x) |-> scalar * x[k]])

(* ---------------- primitives of the leaf operators ---------------- *)

\* Matrix is [[1,1,0],[0,0,2]]
LeafApply(cls, v) ==
    CASE cls = "Double" -> [k \in 1..Len(v) |-> 2 * v[k]]
      [] cls = "Triple" -> [k \in 1..Len(v) |-> 3 * v[k]]
      [] cls = "Square" -> [k \in 1..Len(v) |-> v[k] * v[k]]
      [] cls = "Matrix" -> <<v[1] + v[2], 2 * v[3]>>

\* the transposed matrix
MatrixAdjoint(v) == <<v[1], v[1], 2 * v[2]>>

LeafApplyImpl(cls, m, rhs, out) ==
    LET v == m.heap[rhs].val
    IN IF Len(v) # 3 \/ ~isMember(IF cls = "Matrix" THEN "Y" ELSE "X", m.heap[out])
       THEN Raise(m, "ShapeError")
       ELSE IF ~InRange(v) THEN Raise(m, OutOfRange)
       ELSE Store(m, out, LeafApply(cls, v))

LeafApplyAdjointImpl(m, rhs, out) ==
    LET v == m.heap[rhs].val
    IN IF Len(v) # 2 \/ ~isMember("X", m.heap[out])
       THEN Raise(m, "ShapeError")
       ELSE IF ~InRange(v) THEN Raise(m, OutOfRange)
       ELSE Store(m, out, MatrixAdjoint(v))

(* ---------------- evaluation ---------------- *)

DomainError   == "TypeError: rhs is not in the domain of this operator"
RangeError    == "TypeError: out is not in the range of this operator"
AliasingError == "ValueError: rhs is the same as out"
AdjDomainError == "TypeError: rhs is not in the domain of this operators adjoint"
AdjRangeError  == "TypeError: out is not in the range of this operators adjoint"

RECURSIVE applyImpl(_, _, _, _, _, _), applyAdjointImpl(_, _, _, _, _, _)

\* LinearOperator.applyAdjoint: the checks, then the unchecked adjoint primitive
applyAdjoint(t, i, m, rhs, out, j) ==
    IF m.err # "ok" THEN m
    ELSE LET m0 == Log(m, i, "applyAdjoint", rhs, out)
         IN IF ~isMember(range(t, i), m0.heap[rhs]) THEN Raise(m0, AdjDomainError)
            ELSE IF ~isMember(domain(t, i), m0.heap[out]) THEN Raise(m0, AdjRangeError)
            ELSE IF rhs = out THEN Raise(m0, AliasingError)
            ELSE applyAdjointImpl(t, i, m0, rhs, out, j)

\* apply without the test of out against the range
apply_NoRangeCheck(t, i, m, rhs, out, j) ==
    IF m.err # "ok" THEN m
    ELSE LET m0 == Log(m, i, "apply", rhs, out)
         IN IF ~isMember(domain(t, i), m0.heap[rhs]) THEN Raise(m0, DomainError)
            ELSE IF rhs = out THEN Raise(m0, AliasingError)
            ELSE applyImpl(t, i, m0, rhs, out, j)

\* apply without the test of rhs against out
apply_NoAliasCheck(t, i, m, rhs, out, j) ==
    IF m.err # "ok" THEN m
    ELSE LET m0 == Log(m, i, "apply", rhs, out)
         IN IF ~isMember(domain(t, i), m0.heap[rhs]) THEN Raise(m0, DomainError)
            ELSE IF ~isMember(range(t, i), m0.heap[out]) THEN Raise(m0, RangeError)
            ELSE applyImpl(t, i, m0, rhs, out, j)

\* Operator.apply: the checks, then the unchecked primitive
apply(t, i, m, rhs, out, j) ==
    IF m.err # "ok" THEN m
    ELSE LET m0 == Log(m, i, "apply", rhs, out)
         IN IF ~isMember(domain(t, i), m0.heap[rhs]) THEN Raise(m0, DomainError)
            ELSE IF ~isMember(range(t, i), m0.heap[out]) THEN Raise(m0, RangeError)
            ELSE IF rhs = out THEN Raise(m0, AliasingError)
            ELSE applyImpl(t, i, m0, rhs, out, j)

\* In the methods below `self` is the index of the node, m the machine state
\* on entry, and the buffer allocated by the method is the next free index.
NewBuf(m) == Len(m.heap) + 1

\* OperatorSum.applyImpl that forgets `out += tmp`
OperatorSum_applyImpl_NoAccumulate(t, self, m, rhs, out, j) ==
    LET tmp == NewBuf(m)
        m1  == Alloc(m, empty(range(t, self), j))
        m2  == applyImpl(t, t[self].a, m1, rhs, out, j)
    IN applyImpl(t, t[self].b, m2, rhs, tmp, j)

OperatorSum_applyImpl(t, self, m, rhs, out, j) ==
    LET tmp == NewBuf(m)
        m1  == Alloc(m, empty(range(t, self), j))
        m2  == applyImpl(t, t[self].a, m1, rhs, out, j)
        m3  == applyImpl(t, t[self].b, m2, rhs, tmp, j)
    IN iadd(m3, out, tmp)

\* OperatorComposition.applyImpl that evaluates left before right
OperatorComposition_applyImpl_LeftFirst(t, self, m, rhs, out, j) ==
    LET tmp == NewBuf(m)
        m1  == Alloc(m, empty(range(t, t[self].b), j))
        m2  == applyImpl(t, t[self].a, m1, rhs, tmp, j)
    IN applyImpl(t, t[self].b, m2, tmp, out, j)

OperatorComposition_applyImpl(t, self, m, rhs, out, j) ==
    LET tmp == NewBuf(m)
        m1  == Alloc(m, empty(range(t, t[self].b), j))
        m2  == applyImpl(t, t[self].b, m1, rhs, tmp, j)
    IN applyImpl(t, t[self].a, m2, tmp, out, j)

OperatorPointwiseProduct_applyImpl(t, self, m, rhs, out, j) ==
    LET tmp == NewBuf(m)
        m1  == Alloc(m, empty(range(t, t[self].b), j))
        m2  == applyImpl(t, t[self].a, m1, rhs, out, j)
        m3  == applyImpl(t, t[self].b, m2, rhs, tmp, j)
    IN imul(m3, out, tmp)

OperatorLeftScalarMultiplication_applyImpl(t, self, m, rhs, out, j) ==
    iscale(applyImpl(t, t[self].a, m, rhs, out, j), out, t[self].s)

\* OperatorRightScalarMultiplication.applyImpl that forgets `tmp *= scalar`
OperatorRightScalarMultiplication_applyImpl_NoScale(t, self, m, rhs, out, j) ==
    LET tmp == NewBuf(m)
        m1  == Alloc(m, m.heap[rhs])
    IN applyImpl(t, t[self].a, m1, tmp, out, j)

\* OperatorRightScalarMultiplication.applyImpl that scales rhs itself
OperatorRightScalarMultiplication_applyImpl_InPlace(t, self, m, rhs, out, j) ==
    applyImpl(t, t[self].a, iscale(m, rhs, t[self].s), rhs, out, j)

OperatorRightScalarMultiplication_applyImpl(t, self, m, rhs, out, j) ==
    LET tmp == NewBuf(m)
        m1  == Alloc(m, m.heap[rhs])                 \* tmp = rhs.copy()
        m2  == iscale(m1, tmp, t[self].s)
    IN applyImpl(t, t[self].a, m2, tmp, out, j)

SelfAdjointOperator_applyAdjointImpl(t, self, m, rhs, out, j) ==
    applyImpl(t, self, m, rhs, out, j)

OperatorAdjoint_applyImpl(t, self, m, rhs, out, j) ==
    applyAdjointImpl(t, t[self].a, m, rhs, out, j)

\* OperatorAdjoint.applyAdjointImpl that delegates to the adjoint primitive
OperatorAdjoint_applyAdjointImpl_Same(t, self, m, rhs, out, j) ==
    applyAdjointImpl(t, t[self].a, m, rhs, out, j)

OperatorAdjoint_applyAdjointImpl(t, self, m, rhs, out, j) ==
    applyImpl(t, t[self].a, m, rhs, out, j)

\* LinearOperatorSum.applyAdjointImpl that takes its temporary from the range
LinearOperatorSum_applyAdjointImpl_RangeTmp(t, self, m, rhs, out, j) ==
    LET tmp == NewBuf(m)
        m1  == Alloc(m, empty(range(t, self), j))
        m2  == applyAdjointImpl(t, t[self].a, m1, rhs, out, j)
        m3  == applyAdjointImpl(t, t[self].b, m2, rhs, tmp, j)
    IN iadd(m3, out, tmp)

LinearOperatorSum_applyAdjointImpl(t, self, m, rhs, out, j) ==
    LET tmp == NewBuf(m)
        m1  == Alloc(m, empty(domain(t, self), j))
        m2  == applyAdjointImpl(t, t[self].a, m1, rhs, out, j)
        m3  == applyAdjointImpl(t, t[self].b, m2, rhs, tmp, j)
    IN iadd(m3, out, tmp)

\* LinearOperatorComposition.applyAdjointImpl in the order of the forward
\* evaluation: right's adjoint first
LinearOperatorComposition_applyAdjointImpl_RightFirst(t, self, m, rhs, out, j) ==
    LET tmp == NewBuf(m)
        m1  == Alloc(m, empty(domain(t, t[self].a), j))
        m2  == applyAdjoint(t, t[self].b, m1, rhs, tmp, j)
    IN applyAdjoint(t, t[self].a, m2, tmp, out, j)

LinearOperatorComposition_applyAdjointImpl(t, self, m, rhs, out, j) ==
    LET tmp == NewBuf(m)
        m1  == Alloc(m, empty(domain(t, t[self].a), j))
        m2  == applyAdjoint(t, t[self].a, m1, rhs, tmp, j)
    IN applyAdjoint(t, t[self].b, m2, tmp, out, j)

LinearOperatorScalarMultiplication_applyAdjointImpl(t, self, m, rhs, out, j) ==
    iscale(applyAdjointImpl(t, t[self].a, m, rhs, out, j), out, t[self].s)

\* op.applyImpl(rhs, out): the method of the class of op, or the one it
\* inherits; the call is recorded in the trace
applyImpl(t, i, m, rhs, out, j) ==
    IF m.err # "ok" THEN m
    ELSE
    LET cls == t[i].cls
        m0  == Log(m, i, "applyImpl", rhs, out)
    IN
    CASE cls \in LeafClasses -> LeafApplyImpl(cls, m0, rhs, out)
      [] cls \in {"OperatorSum", "LinearOperatorSum"} ->
            OperatorSum_applyImpl(t, i, m0, rhs, out, j)
      [] cls \in {"OperatorComposition", "LinearOperatorComposition"} ->
            OperatorComposition_applyImpl(t, i, m0, rhs, out, j)
      [] cls = "OperatorPointwiseProduct" ->
            OperatorPointwiseProduct_applyImpl(t, i, m0, rhs, out, j)
      [] cls \in {"OperatorLeftScalarMultiplication",
                  "LinearOperatorScalarMultiplication"} ->
            OperatorLeftScalarMultiplication_applyImpl(t, i, m0, rhs, out, j)
      [] cls = "OperatorRightScalarMultiplication" ->
            OperatorRightScalarMultiplication_applyImpl(t, i, m0, rhs, out, j)
      [] cls = "OperatorAdjoint" ->
            OperatorAdjoint_applyImpl(t, i, m0, rhs, out, j)

\* op.applyAdjointImpl(rhs, out); a class that is not a LinearOperator has
\* no such method
applyAdjointImpl(t, i, m, rhs, out, j) ==
    IF m.err # "ok" THEN m
    ELSE
    LET cls == t[i].cls
        m0  == Log(m, i, "applyAdjointImpl", rhs, out)
    IN
    CASE cls \in {"Double", "Triple"} ->
            SelfAdjointOperator_applyAdjointImpl(t, i, m0, rhs, out, j)
      [] cls = "Matrix" -> LeafApplyAdjointImpl(m0, rhs, out)
      [] cls = "OperatorAdjoint" ->
            OperatorAdjoint_applyAdjointImpl(t, i, m0, rhs, out, j)
      [] cls = "LinearOperatorSum" ->
            LinearOperatorSum_applyAdjointImpl(t, i, m0, rhs, out, j)
      [] cls = "LinearOperatorComposition" ->
            LinearOperatorComposition_applyAdjointImpl(t, i, m0, rhs, out, j)
      [] cls = "LinearOperatorScalarMultiplication" ->
            LinearOperatorScalarMultiplication_applyAdjointImpl(t, i, m0, rhs, out, j)
      [] OTHER -> Raise(m0, "AttributeError")

\* Operator.__call__: the buffer returned is the one allocated here
__call__(t, self, m, rhs, j) ==
    apply(t, self, Alloc(m, empty(range(t, self), j)), rhs, NewBuf(m), j)

(* ---------------- constructors ---------------- *)

\* the outcome of a constructor or of an operator expression
Ok(node)  == [err |-> "ok", node |-> node]
Fail(e)   == [err |-> e, node |-> Node("none", 0, 0, 0)]

\* values a client may pass where a scalar or an operator is expected
Num(v)    == [kind |-> "real", v |-> v]
Op(i)     == [kind |-> "op", v |-> i]
Complex   == [kind |-> "complex", v |-> 1]
Object    == [kind |-> "object", v |-> 0]

ScalarArgs == {Num(2), Complex, Object}

\* isinstance(other, Number)
IsNumber(x) == x.kind \in {"real", "complex"}

\* isinstance(other, Operator)
IsOperator(x) == x.kind = "op"

\* space.field.isMember(scalar): both spaces are real
fieldIsMember(space, x) == x.kind = "real"

OperatorSum__init__(t, op1, op2) ==
    IF range(t, op1) # range(t, op2) THEN Fail("TypeError")
    ELSE IF domain(t, op1) # domain(t, op2) THEN Fail("TypeError")
    ELSE Ok(Node("OperatorSum", op1, op2, 0))

OperatorComposition__init__(t, left, right) ==
    IF range(t, right) # domain(t, left) THEN Fail("TypeError")
    ELSE Ok(Node("OperatorComposition", left, right, 0))

OperatorPointwiseProduct__init__(t, op1, op2) ==
    IF range(t, op1) # range(t, op2) THEN Fail("TypeError")
    ELSE IF domain(t, op1) # domain(t, op2) THEN Fail("TypeError")
    ELSE Ok(Node("OperatorPointwiseProduct", op1, op2, 0))

OperatorLeftScalarMultiplication__init__(t, op, scalar) ==
    IF ~fieldIsMember(range(t, op), scalar) THEN Fail("TypeError")
    ELSE Ok(Node("OperatorLeftScalarMultiplication", op, 0, scalar.v))

OperatorRightScalarMultiplication__init__(t, op, scalar) ==
    IF ~fieldIsMember(domain(t, op), scalar) THEN Fail("TypeError")
    ELSE Ok(Node("OperatorRightScalarMultiplication", op, 0, scalar.v))

OperatorAdjoint__init__(t, op) ==
    IF ~IsLinearOperator(t, op) THEN Fail("TypeError")
    ELSE Ok(Node("OperatorAdjoint", op, 0, 0))

\* a subclass constructor that ends in the base class's __init__
AsClass(cls, r) ==
    IF r.err # "ok" THEN r ELSE Ok([r.node EXCEPT !.cls = cls])

LinearOperatorSum__init__(t, op1, op2) ==
    IF ~IsLinearOperator(t, op1) THEN Fail("TypeError")
    ELSE IF ~IsLinearOperator(t, op2) THEN Fail("TypeError")
    ELSE AsClass("LinearOperatorSum", OperatorSum__init__(t, op1, op2))

LinearOperatorComposition__init__(t, left, right) ==
    IF ~IsLinearOperator(t, left) THEN Fail("TypeError")
    ELSE IF ~IsLinearOperator(t, right) THEN Fail("TypeError")
    ELSE AsClass("LinearOperatorComposition", OperatorComposition__init__(t, left, right))

LinearOperatorScalarMultiplication__init__(t, op, scalar) ==
    IF ~IsLinearOperator(t, op) THEN Fail("TypeError")
    ELSE AsClass("LinearOperatorScalarMultiplication",
                 OperatorLeftScalarMultiplication__init__(t, op, scalar))

(* ---------------- operator overloads ---------------- *)

\* Operator.__add__
Operator__add__(t, self, other) ==
    IF IsOperator(other) THEN OperatorSum__init__(t, self, other.v)
    ELSE Fail("TypeError")

\* Operator.__mul__
Operator__mul__(t, self, other) ==
    IF IsNumber(other) THEN OperatorLeftScalarMultiplication__init__(t, self, other)
    ELSE Fail("TypeError")

\* Operator.__rmul__
Operator__rmul__(t, self, other) ==
    IF IsNumber(other) THEN OperatorRightScalarMultiplication__init__(t, self, other)
    ELSE Fail("TypeError")

\* LinearOperator.__add__
LinearOperator__add__(t, self, other) ==
    IF IsOperator(other) /\ IsLinearOperator(t, other.v)
    THEN LinearOperatorSum__init__(t, self, other.v)
    ELSE Operator__add__(t, self, other)

\* LinearOperator.__mul__, also bound to __rmul__
LinearOperator__mul__(t, self, other) ==
    IF IsNumber(other) THEN LinearOperatorScalarMultiplication__init__(t, self, other)
    ELSE Fail("TypeError")

\* method resolution: the class of `self` selects the method
__add__(t, self, other) ==
    IF IsLinearOperator(t, self) THEN LinearOperator__add__(t, self, other)
    ELSE Operator__add__(t, self, other)

__mul__(t, self, other) ==
    IF IsLinearOperator(t, self) THEN LinearOperator__mul__(t, self, other)
    ELSE Operator__mul__(t, self, other)

__rmul__(t, self, other) ==
    IF IsLinearOperator(t, self) THEN LinearOperator__mul__(t, self, other)
    ELSE Operator__rmul__(t, self, other)

\* the expression `x * y`: the left operand's __mul__ is tried first; a
\* left operand that is not an operator does not know operators, and the
\* right operand's __rmul__ is called
Times(t, x, y) ==
    IF IsOperator(x) THEN __mul__(t, x.v, y)
    ELSE IF IsOperator(y) THEN __rmul__(t, y.v, x)
    ELSE Fail("TypeError")

\* LinearOperator.T
T(t, self) ==
    IF IsLinearOperator(t, self) THEN OperatorAdjoint__init__(t, self)
    ELSE Fail("AttributeError")

(* ---------------- state ---------------- *)

NoCall == [fn |-> "none", op |-> 0, rhs |-> 0, out |-> 0,
           heap |-> <<>>, trace |-> <<>>, err |-> "ok"]

Expr(e, x, y) == [expr |-> e, x |-> x, y |-> y, err |-> "ok"]

NoLast == Expr("none", Object, Object)

\* the operators a client combines: the expression built last, with itself
\* or with a leaf on either side
Operands == Leaves \cup {cur}

Pairs == {p \in Operands \X Operands : p[1] = cur \/ p[2] = cur}

Init ==
    /\ ops = LeafOps
    /\ cur \in Leaves
    /\ last = NoLast
    /\ call = NoCall

\* The client's script is a sequence of statements that ends with the first
\* exception; `last` is the outcome of the last statement if that was an
\* operator expression, `call` its outcome if it was an evaluation.  An
\* evaluation changes no operator, so the script builds, then evaluates.
Running == last.err = "ok" /\ call.fn = "none"

\* the client evaluates expression e, which either yields a new operator or
\* raises
Construct(e, x, y, r) ==
    /\ Running
    /\ Len(ops) < Len(LeafOps) + MaxNodes
    /\ IF r.err = "ok"
       THEN ops' = Append(ops, r.node) /\ cur' = Len(ops) + 1
       ELSE UNCHANGED <<ops, cur>>
    /\ last' = [Expr(e, x, y) EXCEPT !.err = r.err]
    /\ call' = NoCall

NewOperatorSum ==
    \E p \in Pairs :
        Construct("OperatorSum(x, y)", Op(p[1]), Op(p[2]), OperatorSum__init__(ops, p[1], p[2]))

NewOperatorComposition ==
    \E p \in Pairs :
        Construct("OperatorComposition(x, y)", Op(p[1]), Op(p[2]),
                  OperatorComposition__init__(ops, p[1], p[2]))

NewOperatorPointwiseProduct ==
    \E p \in Pairs :
        Construct("OperatorPointwiseProduct(x, y)", Op(p[1]), Op(p[2]),
                  OperatorPointwiseProduct__init__(ops, p[1], p[2]))

NewOperatorLeftScalarMultiplication ==
    \E s \in ScalarArgs :
        Construct("OperatorLeftScalarMultiplication(x, y)", Op(cur), s,
                  OperatorLeftScalarMultiplication__init__(ops, cur, s))

NewOperatorRightScalarMultiplication ==
    \E s \in ScalarArgs :
        Construct("OperatorRightScalarMultiplication(x, y)", Op(cur), s,
                  OperatorRightScalarMultiplication__init__(ops, cur, s))

NewOperatorAdjoint ==
    Construct("OperatorAdjoint(x)", Op(cur), Object, OperatorAdjoint__init__(ops, cur))

NewLinearOperatorSum ==
    \E p \in Pairs :
        Construct("LinearOperatorSum(x, y)", Op(p[1]), Op(p[2]),
                  LinearOperatorSum__init__(ops, p[1], p[2]))

NewLinearOperatorComposition ==
    \E p \in Pairs :
        Construct("LinearOperatorComposition(x, y)", Op(p[1]), Op(p[2]),
                  LinearOperatorComposition__init__(ops, p[1], p[2]))

NewLinearOperatorScalarMultiplication ==
    \E s \in ScalarArgs :
        Construct("LinearOperatorScalarMultiplication(x, y)", Op(cur), s,
                  LinearOperatorScalarMultiplication__init__(ops, cur, s))

\* x + y
Plus ==
    \/ \E p \in Pairs :
          Construct("x + y", Op(p[1]), Op(p[2]), __add__(ops, p[1], Op(p[2])))
    \/ Construct("x + y", Op(cur), Object, __add__(ops, cur, Object))

\* x * y with the operator on the left
OperatorTimes ==
    \E y \in ScalarArgs \cup {Op(cur)} :
        Construct("x * y", Op(cur), y, Times(ops, Op(cur), y))

\* x * y with the operator on the right
TimesOperator ==
    \E x \in ScalarArgs :
        Construct("x * y", x, Op(cur), Times(ops, x, Op(cur)))

\* x.T
Transpose ==
    Construct("x.T", Op(cur), Object, T(ops, cur))

Called(fn, rhs, out, m) ==
    IF m.err = OutOfRange THEN NoCall ELSE
    [fn |-> fn, op |-> cur, rhs |-> rhs, out |-> out,
     heap |-> m.heap, trace |-> m.trace, err |-> m.err]

\* cur.apply(rhs, out) on two of the client's buffers
Apply ==
    \E rhs, out \in ClientBufs, j \in Junk :
        /\ Running
        /\ call' = Called("apply", rhs, out,
                          apply(ops, cur, Machine(ClientHeap), rhs, out, j))
        /\ last' = NoLast
        /\ UNCHANGED <<ops, cur>>

\* cur.applyAdjoint(rhs, out) on two of the client's buffers
ApplyAdjoint ==
    \E rhs, out \in ClientBufs, j \in Junk :
        /\ Running
        /\ IsLinearOperator(ops, cur)
        /\ call' = Called("applyAdjoint", rhs, out,
                          applyAdjoint(ops, cur, Machine(ClientHeap), rhs, out, j))
        /\ last' = NoLast
        /\ UNCHANGED <<ops, cur>>

\* cur(rhs)
Call ==
    \E rhs \in ClientBufs, j \in Junk :
        /\ Running
        /\ call' = Called("call", rhs, NewBuf(Machine(ClientHeap)),
                          __call__(ops, cur, Machine(ClientHeap), rhs, j))
        /\ last' = NoLast
        /\ UNCHANGED <<ops, cur>>

Next ==
    \/ NewOperatorSum
    \/ NewOperatorComposition
    \/ NewOperatorPointwiseProduct
    \/ NewOperatorLeftScalarMultiplication
    \/ NewOperatorRightScalarMultiplication
    \/ NewOperatorAdjoint
    \/ NewLinearOperatorSum
    \/ NewLinearOperatorComposition
    \/ NewLinearOperatorScalarMultiplication
    \/ Plus
    \/ OperatorTimes
    \/ TimesOperator
    \/ Transpose
    \/ Apply
    \/ ApplyAdjoint
    \/ Call

Spec == Init /\ [][Next]_vars

(***************************************************************************)
(* Properties                                                              *)
(***************************************************************************)

\* the machine a client call starts from, and the result buffer of a call
\* through __call__
M0   == Machine(ClientHeap)
Tmp0 == NewBuf(M0)

Evaluated  == call.fn # "none"
Succeeded  == Evaluated /\ call.err = "ok"

\* positions of the trace at which an unchecked primitive was entered
Unchecked == {k \in DOMAIN call.trace :
                call.trace[k].fn \in {"applyImpl", "applyAdjointImpl"}}

\* positions at which the called operator's own applyImpl was entered
TopImpl == {k \in DOMAIN call.trace :
                call.trace[k].op = call.op /\ call.trace[k].fn = "applyImpl"}

RhsInDomain == isMember(domain(ops, call.op), ClientHeap[call.rhs])
OutInRange  == isMember(range(ops, call.op), ClientHeap[call.out])
RhsInRange  == isMember(range(ops, call.op), ClientHeap[call.rhs])
OutInDomain == isMember(domain(ops, call.op), ClientHeap[call.out])
Aliased     == call.rhs = call.out

\* nothing was evaluated and no buffer was touched
Untouched == Unchecked = {} /\ call.heap = ClientHeap

\* the unchecked primitive was entered once, right after the checks, with
\* the caller's two buffers
ImplOnce(fn) ==
    /\ Cardinality({k \in DOMAIN call.trace :
                      call.trace[k].op = call.op /\ call.trace[k].fn = fn}) = 1
    /\ Len(call.trace) >= 2
    /\ call.trace[2] = [op |-> call.op, fn |-> fn,
                        rhs |-> call.rhs, out |-> call.out]

\* C1 as stated: each of the three conditions on its own decides the error
\* of apply(rhs, out): rhs outside the domain gives the domain error, out
\* outside the range gives the range error, rhs being out gives the aliasing
\* error; a failing apply never enters applyImpl and leaves out alone, a
\* passing one enters applyImpl exactly once with (rhs, out).
C1_AsStated ==
    call.fn = "apply" =>
        /\ ~RhsInDomain => call.err = DomainError
        /\ ~OutInRange  => call.err = RangeError
        /\ Aliased      => call.err = AliasingError
        /\ (~RhsInDomain \/ ~OutInRange \/ Aliased) => Untouched
        /\ (RhsInDomain /\ OutInRange /\ ~Aliased) => ImplOnce("applyImpl")

\* C1 (amended): apply(rhs, out) checks in the order domain, range,
\* aliasing and raises the first that fails: the domain error when rhs is not
\* in the domain; the range error when rhs is in the domain and out is not in
\* the range; the aliasing error when both are members and rhs is out.  A
\* failing apply never enters applyImpl and leaves every buffer alone; a
\* passing one enters applyImpl exactly once, with (rhs, out), and succeeds.
C1_ApplyChecks ==
    call.fn = "apply" =>
        /\ ~RhsInDomain => call.err = DomainError
        /\ (RhsInDomain /\ ~OutInRange) => call.err = RangeError
        /\ (RhsInDomain /\ OutInRange /\ Aliased) => call.err = AliasingError
        /\ (~RhsInDomain \/ ~OutInRange \/ Aliased) => Untouched
        /\ (RhsInDomain /\ OutInRange /\ ~Aliased) =>
                call.err = "ok" /\ ImplOnce("applyImpl")

\* C1 witness: an apply whose out is outside the range and whose rhs is
\* inside the domain was rejected with the range error, on a combinator
C1_Witness ==
    /\ call.fn = "apply"
    /\ cur \notin Leaves
    /\ RhsInDomain /\ ~OutInRange /\ ~Aliased
    /\ call.err = RangeError

\* C2 as stated: apply(x, x) fails with the aliasing error for every
\* operator, also when its domain and range differ.
C2_AsStated ==
    (call.fn = "apply" /\ Aliased) => call.err = AliasingError

\* C2 (amended): apply(x, x) never succeeds and never enters applyImpl; it
\* fails with the aliasing error exactly when x is a member of both the domain
\* and the range (so for every operator variant whose domain and range are
\* the space of x); when x is not in the domain it fails with the domain
\* error, and when x is in the domain but not in the range, with the range
\* error.  applyAdjoint(x, x) behaves the same with domain and range swapped.
C2_AliasedCall ==
    /\ (call.fn = "apply" /\ Aliased) =>
          /\ Untouched
          /\ call.err = (IF ~RhsInDomain THEN DomainError
                         ELSE IF ~OutInRange THEN RangeError
                         ELSE AliasingError)
    /\ (call.fn = "applyAdjoint" /\ Aliased) =>
          /\ Untouched
          /\ call.err = (IF ~RhsInRange THEN AdjDomainError
                         ELSE IF ~OutInDomain THEN AdjRangeError
                         ELSE AliasingError)

\* C2 witness: apply(x, x) on a combinator from X to X, with x in X, was
\* rejected with the aliasing error
C2_Witness ==
    /\ call.fn = "apply" /\ Aliased
    /\ cur \notin Leaves
    /\ RhsInDomain /\ OutInRange
    /\ call.err = AliasingError

\* the value an operator of table t returns when called on client buffer rhs
Value(t, i, rhs, j) == __call__(t, i, M0, rhs, j).heap[Tmp0].val

Scaled(a, v) == [k \in DOMAIN v |-> a * v[k]]

\* the value operator i returns on a copy of client buffer rhs scaled by a
ValueAtScaled(t, i, a, rhs, j) ==
    LET h == Append(ClientHeap, [ClientHeap[rhs] EXCEPT !.val = Scaled(a, @)])
    IN __call__(t, i, Machine(h), Len(h), j).heap[Len(h) + 1].val

\* C3: on a base (non-linear) operator A and a scalar a, `a * A` constructs
\* an OperatorLeftScalarMultiplication, which evaluates to a*A(x), and
\* `A * a` constructs an OperatorRightScalarMultiplication, which evaluates
\* to A(a*x); with a non-scalar operand either expression raises TypeError.
C3_AsStated ==
    /\ last.expr = "x * y" =>
        /\ (last.x.kind = "real" /\ IsOperator(last.y)
                /\ ~IsLinearOperator(ops, last.y.v)) =>
              /\ last.err = "ok"
              /\ ops[cur] = Node("OperatorLeftScalarMultiplication",
                                 last.y.v, 0, last.x.v)
        /\ (IsOperator(last.x) /\ last.y.kind = "real"
                /\ ~IsLinearOperator(ops, last.x.v)) =>
              /\ last.err = "ok"
              /\ ops[cur] = Node("OperatorRightScalarMultiplication",
                                 last.x.v, 0, last.y.v)
        /\ (IsOperator(last.x) /\ ~IsNumber(last.y)) => last.err = "TypeError"
        /\ (IsOperator(last.y) /\ ~IsNumber(last.x)) => last.err = "TypeError"
    /\ (call.fn = "call" /\ call.err = "ok"
            /\ ops[cur].cls = "OperatorLeftScalarMultiplication") =>
          \A j \in Junk :
            call.heap[call.out].val =
                Scaled(ops[cur].s, Value(ops, ops[cur].a, call.rhs, j))
    /\ (call.fn = "call" /\ call.err = "ok"
            /\ ops[cur].cls = "OperatorRightScalarMultiplication") =>
          \A j \in Junk :
            call.heap[call.out].val =
                ValueAtScaled(ops, ops[cur].a, ops[cur].s, call.rhs, j)

\* a forward evaluation (apply or __call__) whose checks pass
Forward == call.fn \in {"apply", "call"}

ChecksPass ==
    /\ Forward
    /\ RhsInDomain
    /\ call.fn = "call" \/ (OutInRange /\ ~Aliased)

\* what the evaluation left in out
Out == call.heap[call.out].val

VecAdd(x, y) == [k \in DOMAIN x |-> x[k] + y[k]]

IsSum(n) == n.cls \in {"OperatorSum", "LinearOperatorSum"}

\* C4: evaluating a Sum of A and B, through __call__ or through apply into a
\* distinct out, yields A(x) + B(x) element-wise for every x of the shared
\* domain; with A = Double, B = Triple and x = [1,2,3] it yields [5,10,15].
C4_SumValue ==
    (ChecksPass /\ IsSum(ops[cur])) =>
        /\ call.err = "ok"
        /\ \A j \in Junk :
              Out = VecAdd(Value(ops, ops[cur].a, call.rhs, j),
                           Value(ops, ops[cur].b, call.rhs, j))
        /\ (ops[cur].a = 1 /\ ops[cur].b = 2 /\ call.rhs = 1)
              => Out = <<5, 10, 15>>

\* C4 witness: the Sum of Double and Triple, evaluated at [1,2,3], gave
\* [5,10,15]
C4_Witness ==
    /\ IsSum(ops[cur]) /\ ops[cur].a = 1 /\ ops[cur].b = 2
    /\ ChecksPass /\ call.rhs = 1 /\ call.err = "ok"
    /\ Out = <<5, 10, 15>>

IsComposition(n) == n.cls \in {"OperatorComposition", "LinearOperatorComposition"}

\* A(B(x)) computed by calling B on x and then A on the buffer B returned
Composed(t, left, right, rhs, j) ==
    LET mB == __call__(t, right, M0, rhs, j)
        mA == __call__(t, left, Machine(mB.heap), Tmp0, j)
    IN mA.heap[NewBuf(mB)].val

\* the buffer a one-temporary method of the called operator allocated: the
\* first one after the client's buffers and the result buffer of __call__
TopTmp == IF call.fn = "call" THEN Tmp0 + 1 ELSE Tmp0

\* the first position of the trace at which buffer b is read as an input
FirstRead(b) ==
    CHOOSE k \in DOMAIN call.trace :
        /\ call.trace[k].rhs = b
        /\ \A k2 \in 1..(k - 1) : call.trace[k2].rhs # b

\* C5: Composition(A, B) has domain B.domain and range A.range, and for x in
\* B.domain its evaluation yields A(B(x)): B is evaluated first, into a fresh
\* temporary of B.range, and then A on that temporary into out.
C5_Composition ==
    /\ \A i \in DOMAIN ops : IsComposition(ops[i]) =>
          /\ domain(ops, i) = domain(ops, ops[i].b)
          /\ range(ops, i)  = range(ops, ops[i].a)
    /\ (ChecksPass /\ IsComposition(ops[cur])) =>
          /\ call.err = "ok"
          /\ \A j \in Junk :
                Out = Composed(ops, ops[cur].a, ops[cur].b, call.rhs, j)
          /\ call.heap[TopTmp].space = range(ops, ops[cur].b)
          /\ call.trace[3] = [op |-> ops[cur].b, fn |-> "applyImpl",
                              rhs |-> call.rhs, out |-> TopTmp]
          /\ \E k \in DOMAIN call.trace :
                /\ k > 3
                /\ k = FirstRead(TopTmp)
                /\ call.trace[k] = [op |-> ops[cur].a, fn |-> "applyImpl",
                                    rhs |-> TopTmp, out |-> call.out]
                /\ \A k2 \in 3..(k - 1) : call.trace[k2].out # call.out

\* C5 witness: Composition(Matrix, Square) applied to [1,2,3] gave
\* Matrix([1,4,9]) = [5,18]
C5_Witness ==
    /\ ops[cur] = Node("OperatorComposition", 4, 3, 0)
    /\ call.fn = "apply" /\ call.rhs = 1 /\ call.err = "ok"
    /\ Out = <<5, 18>>

IsLeft(n)  == n.cls = "OperatorLeftScalarMultiplication"
IsRight(n) == n.cls = "OperatorRightScalarMultiplication"

\* the value of the other scalar multiplication of the same operator by the
\* same scalar
OtherSide(t, n, rhs, j) ==
    LET o == [n EXCEPT !.cls = IF IsLeft(n)
                                THEN "OperatorRightScalarMultiplication"
                                ELSE "OperatorLeftScalarMultiplication"]
    IN Value(Append(t, o), Len(t) + 1, rhs, j)

\* C6: for a linear operator A, a scalar a of the field and x in the domain,
\* LeftScalarMultiplication(A, a)(x) = RightScalarMultiplication(A, a)(x)
\* (both are [4,4,4] for A = Double, a = 2, x = [1,1,1]); for the non-linear
\* Square the two differ: with a = 2 they differ at each of the client's
\* vectors, and are [2,2,2] and [4,4,4] at [1,1,1].
C6_LeftRight ==
    (ChecksPass /\ (IsLeft(ops[cur]) \/ IsRight(ops[cur]))) =>
        /\ IsLinearOperator(ops, ops[cur].a) =>
              /\ call.err = "ok"
              /\ \A j \in Junk : Out = OtherSide(ops, ops[cur], call.rhs, j)
              /\ (ops[cur].a = 1 /\ ops[cur].s = 2 /\ call.rhs = 2)
                    => Out = <<4, 4, 4>>
        /\ (ops[cur].a = 3 /\ ops[cur].s = 2) =>
              /\ call.err = "ok"
              /\ \A j \in Junk : Out # OtherSide(ops, ops[cur], call.rhs, j)
              /\ call.rhs = 2 =>
                    Out = (IF IsLeft(ops[cur]) THEN <<2, 2, 2>> ELSE <<4, 4, 4>>)

\* C6 witness: RightScalarMultiplication(Double, 2) at [1,1,1] gave [4,4,4]
C6_Witness ==
    /\ ops[cur] = Node("OperatorRightScalarMultiplication", 1, 0, 2)
    /\ ChecksPass /\ call.rhs = 2 /\ call.err = "ok"
    /\ Out = <<4, 4, 4>>

\* node i is Adjoint(Adjoint(A)); Inner(i) is A
IsAdjointOfAdjoint(i) ==
    /\ ops[i].cls = "OperatorAdjoint"
    /\ ops[ops[i].a].cls = "OperatorAdjoint"

Inner(i) == ops[ops[i].a].a

\* C7: Adjoint(Adjoint(A)), also reached as A.T.T, has the domain and the
\* range of A; its apply(x, out) leaves in out what A.apply(x, out) leaves
\* there, and its applyAdjoint what A.applyAdjoint leaves there; a call that
\* A rejects is rejected with the same error.
C7_DoubleAdjoint ==
    /\ \A i \in DOMAIN ops : IsAdjointOfAdjoint(i) =>
          /\ domain(ops, i) = domain(ops, Inner(i))
          /\ range(ops, i)  = range(ops, Inner(i))
    /\ (call.fn = "apply" /\ IsAdjointOfAdjoint(cur)) =>
          /\ (RhsInDomain /\ OutInRange /\ ~Aliased) => call.err = "ok"
          /\ \A j \in Junk :
                LET m == apply(ops, Inner(cur), M0, call.rhs, call.out, j)
                IN /\ call.err = m.err
                   /\ call.heap[call.out] = m.heap[call.out]
    /\ (call.fn = "applyAdjoint" /\ IsAdjointOfAdjoint(cur)) =>
          /\ (RhsInRange /\ OutInDomain /\ ~Aliased) => call.err = "ok"
          /\ \A j \in Junk :
                LET m == applyAdjoint(ops, Inner(cur), M0, call.rhs, call.out, j)
                IN /\ call.err = m.err
                   /\ call.heap[call.out] = m.heap[call.out]

\* C7 witness: Matrix.T.T applied to [1,2,3] wrote Matrix([1,2,3]) = [3,6]
C7_Witness ==
    /\ IsAdjointOfAdjoint(cur) /\ Inner(cur) = 4
    /\ call.fn = "apply" /\ call.rhs = 1 /\ call.out = 3 /\ call.err = "ok"
    /\ Out = <<3, 6>>

\* R.applyAdjoint(L.applyAdjoint(y)) computed by two checked adjoint calls
\* into buffers allocated for them
AdjointComposed(t, left, right, rhs, j) ==
    LET h1 == Append(ClientHeap, empty(domain(t, left), j))
        b1 == Len(h1)
        m1 == applyAdjoint(t, left, Machine(h1), rhs, b1, j)
        h2 == Append(m1.heap, empty(domain(t, right), j))
        b2 == Len(h2)
        m2 == applyAdjoint(t, right, Machine(h2), b1, b2, j)
    IN m2.heap[b2].val

\* C8: LinearOperatorComposition(L, R).applyAdjoint(y, out), y in L.range,
\* leaves R.applyAdjoint(L.applyAdjoint(y)) in out: the adjoint of L is
\* evaluated first, into a temporary of L.domain, and then the adjoint of R
\* on that temporary into out.
C8_AdjointOfComposition ==
    (call.fn = "applyAdjoint" /\ ops[cur].cls = "LinearOperatorComposition"
        /\ RhsInRange /\ OutInDomain /\ ~Aliased) =>
          /\ call.err = "ok"
          /\ \A j \in Junk :
                Out = AdjointComposed(ops, ops[cur].a, ops[cur].b, call.rhs, j)
          /\ call.heap[Tmp0].space = domain(ops, ops[cur].a)
          /\ call.trace[3] = [op |-> ops[cur].a, fn |-> "applyAdjoint",
                              rhs |-> call.rhs, out |-> Tmp0]
          /\ \E k \in DOMAIN call.trace :
                /\ k > 3
                /\ k = FirstRead(Tmp0)
                /\ call.trace[k] = [op |-> ops[cur].b, fn |-> "applyAdjoint",
                                    rhs |-> Tmp0, out |-> call.out]
                /\ \A k2 \in 3..(k - 1) : call.trace[k2].out # call.out

\* C8 witness: LinearOperatorComposition(Matrix, Double).applyAdjoint on
\* y = [3,-1] gave Double(Matrix^T y) = [6,6,-4]
C8_Witness ==
    /\ ops[cur] = Node("LinearOperatorComposition", 4, 1, 0)
    /\ call.fn = "applyAdjoint" /\ call.rhs = 3 /\ call.err = "ok"
    /\ Out = <<6, 6, -4>>

\* C9: a successful apply, __call__ or applyAdjoint leaves rhs, and every
\* buffer of the caller other than out, as it was; RightScalarMultiplication
\* hands its operand a copy of rhs, never rhs itself.
C9_RhsUnchanged ==
    Succeeded =>
        /\ call.heap[call.rhs] = ClientHeap[call.rhs]
        /\ \A b \in ClientBufs : b # call.out => call.heap[b] = ClientHeap[b]
        /\ IsRight(ops[cur]) =>
              /\ call.trace[3].rhs \notin ClientBufs \cup {call.out}
              /\ call.trace[3].op = ops[cur].a

\* C9 witness: RightScalarMultiplication(Square, 2) applied to [1,2,3] gave
\* [4,16,36] and rhs is still [1,2,3]
C9_Witness ==
    /\ ops[cur] = Node("OperatorRightScalarMultiplication", 3, 0, 2)
    /\ call.fn = "apply" /\ call.rhs = 1 /\ call.err = "ok"
    /\ Out = <<4, 16, 36>>
    /\ call.heap[1].val = <<1, 2, 3>>

\* C10: once the checks of a top-level apply / applyAdjoint have passed,
\* every call of an unchecked primitive made during the evaluation gets an
\* input of the callee's input space, an output buffer of its output space,
\* and two distinct buffers; no such call fails.
C10_NestedCalls ==
    (Evaluated /\ Unchecked # {}) =>
        /\ call.err = "ok"
        /\ \A k \in Unchecked :
              LET e == call.trace[k] IN
              /\ e.rhs # e.out
              /\ e.fn = "applyImpl" =>
                    /\ isMember(domain(ops, e.op), call.heap[e.rhs])
                    /\ isMember(range(ops, e.op), call.heap[e.out])
              /\ e.fn = "applyAdjointImpl" =>
                    /\ isMember(range(ops, e.op), call.heap[e.rhs])
                    /\ isMember(domain(ops, e.op), call.heap[e.out])

\* C10 witness: the adjoint of a LinearOperatorSum of Matrix with itself was
\* applied, through OperatorAdjoint, to a buffer of Y into a buffer of X
C10_Witness ==
    /\ ops[cur].cls = "OperatorAdjoint"
    /\ ops[ops[cur].a] = Node("LinearOperatorSum", 4, 4, 0)
    /\ call.fn = "apply" /\ call.rhs = 3 /\ call.out = 1 /\ call.err = "ok"
    /\ Cardinality(Unchecked) >= 4
    /\ Out = <<6, 6, -4>>
====
